---- MODULE Spec2Model ----
(***************************************************************************)
(* A model of include/nicegraf_wrappers.h: the move-only owning wrapper    *)
(* ngf_handle and the per-frame uniform streaming helper streamed_uniform. *)
(***************************************************************************)
EXTENDS Integers, Sequences, FiniteSets, TLC

\* ------------------------------------------------------------------------
\* Bounds of the model
\* ------------------------------------------------------------------------
NumHandles == 2
MaxObjs == 2
MaxDestroys == 2
MaxPayload == 300
MaxFrames == 3
MaxWrites == 7

\* the most bind-ops one cmd_bind_resources call is given
MaxOps == 2

\* ------------------------------------------------------------------------
\* Values
\* ------------------------------------------------------------------------
\* nullptr
Null == 0
Handles == 1..NumHandles
\* the backend objects a create call can produce, in order of creation
Objs == 1..MaxObjs

NGF_ERROR_OK == "NGF_ERROR_OK"
\* the failure codes a backend create may return
CreateErrors == {"NGF_ERROR_OUTOFMEM", "NGF_ERROR_FAILED_TO_CREATE"}

VARIABLES
  alive,            \* the ngf_handle objects that are constructed and not yet destructed
  handle_,          \* ngf_handle::handle_ of every handle (Null for one not alive)
  destroyed,        \* per backend object: how often ObjectManagementFuncs::destroy got it
  nextObj,          \* the object the next successful create produces
  raw,              \* the raw pointers the client has seen (from get and release)
  last,             \* the last call on a handle: its arguments, result and backend calls
  sizeofT,          \* sizeof(T) of streamed_uniform<T>
  nframes_,         \* streamed_uniform::nframes_
  aligned_size_,    \* streamed_uniform::aligned_size_
  frame_,           \* streamed_uniform::frame_
  current_offset_,  \* streamed_uniform::current_offset_
  buf_,             \* streamed_uniform::buf_ (the raw buffer it holds, or Null)
  buffer_info,      \* the ngf_buffer_info the constructor passed to the backend
  writes,           \* number of write calls so far
  wcalls,           \* the backend calls of the most recent write, in order
  bind_op,          \* the most recent result of bind_op_at_current_offset
  slotWrite,        \* per slot: the number of the last write that filled it (0: none)
  mapped_buf,       \* the pointer ngf_uniform_buffer_map_range returned to the last write
  wret,             \* what the last write call returned to its caller
  crashed,          \* the process died in a write (a memcpy to a null mapping)
  bind_req,         \* the last bind_op_at_current_offset call: arguments, backend calls
  inflight,         \* GPU: the submitted and unretired frames, oldest first (slot each reads)
  pending,          \* CPU: TRUE between a frame's write and its submission
  cmd_args,         \* the bind-ops the last cmd_bind_resources call was given
  cmd_calls,        \* the backend calls the last cmd_bind_resources call made
  cmd_ret,          \* what became of the last cmd_bind_resources call
  cmd_bound         \* backend: the op bound at each (set, binding) of the command buffer

hvars == <<alive, handle_, destroyed, nextObj, raw, last>>
svars == <<sizeofT, nframes_, aligned_size_, frame_, current_offset_, buf_,
           buffer_info, writes, wcalls, bind_op, slotWrite, mapped_buf, wret,
           crashed, bind_req>>
gvars == <<inflight, pending>>
cvars == <<cmd_args, cmd_calls, cmd_ret, cmd_bound>>
vars == <<hvars, svars, gvars, cvars>>

\* ------------------------------------------------------------------------
\* ngf_handle
\* ------------------------------------------------------------------------
\* One backend call, as the backend sees it.
BackendCall(fn, obj, ret) == [fn |-> fn, obj |-> obj, ret |-> ret]

\* The state a member function works on and the backend calls it made so far.
HState(hv, dv, calls) == [h |-> hv, d |-> dv, calls |-> calls]

\* ObjectManagementFuncs::destroy(p): the backend object p is destroyed once more.
destroy(dv, p) == [dv EXCEPT ![p] = @ + 1]

\* destroy_if_necessary without the handle_ = nullptr of line 75
destroy_if_necessary_no_null(hv, dv, h) ==
  IF hv[h] # Null
  THEN HState(hv, destroy(dv, hv[h]), <<BackendCall("destroy", hv[h], "")>>)
  ELSE HState(hv, dv, <<>>)

\* void destroy_if_necessary()
destroy_if_necessary(hv, dv, h) ==
  IF hv[h] # Null
  THEN HState([hv EXCEPT ![h] = Null], destroy(dv, hv[h]),
              <<BackendCall("destroy", hv[h], "")>>)
  ELSE HState(hv, dv, <<>>)

\* ObjectManagementFuncs::create(&info, r): on success the new object is stored
\* through r; on failure the error is returned and *r is left as it was.
create(outcome, r, fresh) ==
  IF outcome = NGF_ERROR_OK
  THEN [ret |-> outcome, out |-> fresh]
  ELSE [ret |-> outcome, out |-> r]

\* operator= without the other.handle_ = nullptr of line 48
move_assign_keep_source(hv, dv, h, o) ==
  LET d  == destroy_if_necessary(hv, dv, h)
  IN  HState([d.h EXCEPT ![h] = d.h[o]], d.d, d.calls)

\* operator= without the destroy_if_necessary() of line 46
move_assign_no_destroy(hv, dv, h, o) ==
  LET h1 == [hv EXCEPT ![h] = hv[o]]
  IN  HState([h1 EXCEPT ![o] = Null], dv, <<>>)

\* operator= that reads other.handle_ before it destroys its own object
move_assign_read_first(hv, dv, h, o) ==
  LET tmp == hv[o]
      d   == destroy_if_necessary(hv, dv, h)
      h1  == [d.h EXCEPT ![h] = tmp]
  IN  HState(IF o = h THEN h1 ELSE [h1 EXCEPT ![o] = Null], d.d, d.calls)

\* ngf_handle& operator=(ngf_handle&& other), this = h, other = o
move_assign(hv, dv, h, o) ==
  LET d  == destroy_if_necessary(hv, dv, h)
      h1 == [d.h EXCEPT ![h] = d.h[o]]
      h2 == [h1 EXCEPT ![o] = Null]
  IN  HState(h2, d.d, d.calls)

\* initialize without the destroy_if_necessary() of line 55
initialize_no_destroy(hv, dv, h, outcome, fresh) ==
  LET c == create(outcome, hv[h], fresh)
  IN  [h |-> [hv EXCEPT ![h] = c.out], d |-> dv,
       calls |-> <<BackendCall("create", c.out, c.ret)>>, ret |-> c.ret]

\* ngf_error initialize(const InitType &info)
initialize(hv, dv, h, outcome, fresh) ==
  LET d == destroy_if_necessary(hv, dv, h)
      c == create(outcome, d.h[h], fresh)
  IN  [h |-> [d.h EXCEPT ![h] = c.out], d |-> d.d,
       calls |-> d.calls \o <<BackendCall("create", c.out, c.ret)>>, ret |-> c.ret]

\* release without the handle_ = nullptr of line 63
release_keep(hv, h) == [h |-> hv, ret |-> hv[h]]

\* T* release()
release(hv, h) ==
  LET tmp == hv[h]
  IN  [h |-> [hv EXCEPT ![h] = Null], ret |-> tmp]

\* void reset(T *new_handle)
reset(hv, dv, h, new_handle) ==
  LET d == destroy_if_necessary(hv, dv, h)
  IN  HState([d.h EXCEPT ![h] = new_handle], d.d, d.calls)

\* The record of a call on a handle.
Call(op, self, other, arg, ret, err, calls) ==
  [op |-> op, self |-> self, other |-> other, arg |-> arg, ret |-> ret,
   err |-> err, calls |-> calls]

\* No object is destroyed more often than the model counts.
Countable(dv) == \A p \in Objs : dv[p] <= MaxDestroys

\* ngf_handle()
Construct(h) ==
  /\ h \notin alive
  /\ alive' = alive \cup {h}
  /\ handle_' = [handle_ EXCEPT ![h] = Null]
  /\ last' = Call("construct", h, 0, Null, Null, "", <<>>)
  /\ UNCHANGED <<destroyed, nextObj, raw>>

\* explicit ngf_handle(T *raw)
ConstructRaw(h, p) ==
  /\ h \notin alive
  /\ alive' = alive \cup {h}
  /\ handle_' = [handle_ EXCEPT ![h] = p]
  /\ last' = Call("construct_raw", h, 0, p, Null, "", <<>>)
  /\ UNCHANGED <<destroyed, nextObj, raw>>

\* ngf_handle(ngf_handle &&other)
MoveConstruct(h, o) ==
  /\ h \notin alive
  /\ o \in alive
  /\ LET r == move_assign([handle_ EXCEPT ![h] = Null], destroyed, h, o)
     IN  /\ Countable(r.d)
         /\ handle_' = r.h
         /\ destroyed' = r.d
         /\ last' = Call("move_construct", h, o, Null, Null, "", r.calls)
  /\ alive' = alive \cup {h}
  /\ UNCHANGED <<nextObj, raw>>

\* ~ngf_handle()
Destruct(h) ==
  /\ h \in alive
  /\ LET r == destroy_if_necessary(handle_, destroyed, h)
     IN  /\ Countable(r.d)
         /\ handle_' = [r.h EXCEPT ![h] = Null]
         /\ destroyed' = r.d
         /\ last' = Call("destruct", h, 0, Null, Null, "", r.calls)
  /\ alive' = alive \ {h}
  /\ UNCHANGED <<nextObj, raw>>

\* a = std::move(b), h = a and o = b (o may be h itself)
MoveAssign(h, o) ==
  /\ h \in alive
  /\ o \in alive
  /\ LET r == move_assign(handle_, destroyed, h, o)
     IN  /\ Countable(r.d)
         /\ handle_' = r.h
         /\ destroyed' = r.d
         /\ last' = Call("move_assign", h, o, Null, Null, "", r.calls)
  /\ UNCHANGED <<alive, nextObj, raw>>

\* h.initialize(info); the backend succeeds or fails with one of its errors
Initialize(h, outcome) ==
  /\ h \in alive
  /\ outcome = NGF_ERROR_OK => nextObj <= MaxObjs
  /\ LET r == initialize(handle_, destroyed, h, outcome, nextObj)
     IN  /\ Countable(r.d)
         /\ handle_' = r.h
         /\ destroyed' = r.d
         /\ last' = Call("initialize", h, 0, Null, Null, r.ret, r.calls)
  /\ nextObj' = IF outcome = NGF_ERROR_OK THEN nextObj + 1 ELSE nextObj
  /\ UNCHANGED <<alive, raw>>

\* h.get(), and the conversions to T*
Get(h) ==
  /\ h \in alive
  /\ raw' = raw \cup ({handle_[h]} \ {Null})
  /\ last' = Call("get", h, 0, Null, handle_[h], "", <<>>)
  /\ UNCHANGED <<alive, handle_, destroyed, nextObj>>

\* h.release()
Release(h) ==
  /\ h \in alive
  /\ LET r == release(handle_, h)
     IN  /\ handle_' = r.h
         /\ raw' = raw \cup ({r.ret} \ {Null})
         /\ last' = Call("release", h, 0, Null, r.ret, "", <<>>)
  /\ UNCHANGED <<alive, destroyed, nextObj>>

\* h.reset(p)
Reset(h, p) ==
  /\ h \in alive
  /\ LET r == reset(handle_, destroyed, h, p)
     IN  /\ Countable(r.d)
         /\ handle_' = r.h
         /\ destroyed' = r.d
         /\ last' = Call("reset", h, 0, p, Null, "", r.calls)
  /\ UNCHANGED <<alive, nextObj, raw>>

\* ------------------------------------------------------------------------
\* streamed_uniform
\* ------------------------------------------------------------------------
\* the alignment the constructor pads the payload to
Alignment == 256

NGF_BUFFER_MAP_WRITE_BIT == "NGF_BUFFER_MAP_WRITE_BIT"
NGF_BUFFER_MAP_DISCARD_BIT == "NGF_BUFFER_MAP_DISCARD_BIT"

\* the payloads a client writes
Payloads == {"p", "q"}
\* the (set, binding) coordinates a client asks a bind-op for
Coords == 0..1
\* the one object ngf_create_uniform_buffer2 produces for the allocator
BufObj == 1
Slots == 0..(MaxFrames - 1)

\* the payload size rounded down to the alignment instead of up
AlignedSize_round_down(s) == s - (s % Alignment)

\* aligned_size_(sizeof(T) + (256u - sizeof(T)%256u))
AlignedSize(s) == s + (Alignment - (s % Alignment))

\* const ngf_buffer_info buffer_info = { aligned_size_ * nframes, ... }
BufferInfo(aligned, nframes) ==
  [size |-> aligned * nframes, storage |-> "NGF_BUFFER_STORAGE_HOST_READABLE_WRITEABLE"]

\* the offset taken after frame_ was advanced instead of before
Offset_of_next(frame, aligned) == (frame + 1) * aligned

\* current_offset_ = (frame_) * aligned_size_
Offset(frame, aligned) == frame * aligned

\* the map flags without the discard case of line 183
MapFlags_never_discard(offset) == {NGF_BUFFER_MAP_WRITE_BIT}

\* the flags of the map request at an offset
MapFlags(offset) ==
  IF offset = 0
  THEN {NGF_BUFFER_MAP_WRITE_BIT, NGF_BUFFER_MAP_DISCARD_BIT}
  ELSE {NGF_BUFFER_MAP_WRITE_BIT}

\* a ring that wraps to slot 1 instead of slot 0
NextFrame_skip_zero(frame, n) == IF frame + 1 >= n THEN (IF n > 1 THEN 1 ELSE 0) ELSE frame + 1

\* frame_ advanced without the % nframes_ of line 192
NextFrame_no_wrap(frame, n) == frame + 1

\* frame_ = (frame_ + 1u) % nframes_
NextFrame(frame, n) == (frame + 1) % n

\* One call of the buffer API, as the backend sees it.
BufCall(fn, buf, offset, size, flags, data) ==
  [fn |-> fn, buf |-> buf, offset |-> offset, size |-> size, flags |-> flags,
   data |-> data]

\* a non-null pointer into the mapped range
Mapped == 1

\* what ngf_uniform_buffer_map_range may return: a mapping, or null on failure
MapResults == {Mapped, Null}

\* void write(const T &data): the new current_offset_, the backend calls in
\* order (the memcpy goes to whatever map_range returned), the new frame_
write(frame, n, aligned, size, buf, data, mapped) ==
  LET off == Offset(frame, aligned)
  IN  [current_offset |-> off,
       calls |-> << BufCall("map_range", buf, off, aligned, MapFlags(off), ""),
                    BufCall("memcpy", buf, off, size, {}, data),
                    BufCall("flush_range", buf, off, aligned, {}, ""),
                    BufCall("unmap", buf, 0, 0, {}, "") >>,
       mapped_buf |-> mapped,
       ret |-> "void",
       frame |-> NextFrame(frame, n)]

\* the bind-op with the offset one slot further than current_offset_
bind_op_one_slot_on(set, binding, buf, offset, aligned) ==
  [type |-> "NGF_DESCRIPTOR_UNIFORM_BUFFER", target_binding |-> binding,
   target_set |-> set, buffer |-> buf, offset |-> offset + aligned, range |-> aligned]

\* the ngf_resource_bind_op that bind_op_at_current_offset(set, binding) returns
bind_op_at_current_offset(set, binding, buf, offset, aligned) ==
  [type |-> "NGF_DESCRIPTOR_UNIFORM_BUFFER", target_binding |-> binding,
   target_set |-> set, buffer |-> buf, offset |-> offset, range |-> aligned]

\* a bind_op_at_current_offset that also moves the ring on
bind_call_advancing(set, binding, buf, frame, n, offset, aligned) ==
  [op |-> bind_op_at_current_offset(set, binding, buf, offset, aligned),
   frame |-> (frame + 1) % n, current_offset |-> offset, calls |-> <<>>]

\* bind_op_at_current_offset as a member call: the op it returns, the frame_
\* and current_offset_ it leaves, and the backend calls it makes (none)
bind_call(set, binding, buf, frame, n, offset, aligned) ==
  [op |-> bind_op_at_current_offset(set, binding, buf, offset, aligned),
   frame |-> frame, current_offset |-> offset, calls |-> <<>>]

\* no bind_op_at_current_offset call yet
NoBindReq == [set |-> 0, binding |-> 0, writes |-> 0, calls |-> <<>>]

NoBindOp ==
  [type |-> "", target_binding |-> 0, target_set |-> 0, buffer |-> Null,
   offset |-> 0, range |-> 0]

\* explicit streamed_uniform(uint32_t nframes), for sizeof(T) in Sizes and
\* nframes in Frames; the backend gives a buffer or fails and leaves buf null
Constructed(Sizes, Frames, Bufs) ==
  /\ sizeofT \in Sizes
  /\ nframes_ \in Frames
  /\ aligned_size_ = AlignedSize(sizeofT)
  /\ frame_ = 0
  /\ current_offset_ = 0
  /\ buffer_info = BufferInfo(aligned_size_, nframes_)
  /\ buf_ \in Bufs
  /\ writes = 0
  /\ wcalls = <<>>
  /\ bind_op = NoBindOp
  /\ slotWrite = [s \in Slots |-> 0]
  /\ mapped_buf = Null
  /\ wret = ""
  /\ crashed = FALSE
  /\ bind_req = NoBindReq

\* u.write(data), with map_range returning m.  The memcpy to a null mapping is
\* undefined: the process dies there (survive = FALSE) or carries on.
Write(data, m, survive) ==
  /\ ~crashed
  /\ writes < MaxWrites
  /\ survive \/ m = Null
  /\ LET w == write(frame_, nframes_, aligned_size_, sizeofT, buf_, data, m)
     IN  /\ current_offset_' = w.current_offset
         /\ mapped_buf' = w.mapped_buf
         /\ IF survive
            THEN /\ wcalls' = w.calls
                 /\ wret' = w.ret
                 /\ frame_' = w.frame
                 /\ slotWrite' = [s \in Slots |->
                                    IF s * aligned_size_ = w.current_offset
                                    THEN writes + 1 ELSE slotWrite[s]]
                 /\ writes' = writes + 1
                 /\ crashed' = FALSE
            ELSE /\ wcalls' = SubSeq(w.calls, 1, 2)
                 /\ wret' = ""
                 /\ crashed' = TRUE
                 /\ UNCHANGED <<frame_, slotWrite, writes>>
  /\ UNCHANGED <<sizeofT, nframes_, aligned_size_, buf_, buffer_info, bind_op,
                 bind_req>>

\* u.bind_op_at_current_offset(set, binding)
BindOp(set, binding) ==
  /\ ~crashed
  /\ LET r == bind_call(set, binding, buf_, frame_, nframes_, current_offset_,
                        aligned_size_)
     IN  /\ bind_op' = r.op
         /\ frame_' = r.frame
         /\ current_offset_' = r.current_offset
         /\ bind_req' = [set |-> set, binding |-> binding, writes |-> writes,
                         calls |-> r.calls]
  /\ UNCHANGED <<sizeofT, nframes_, aligned_size_, buf_, buffer_info, writes,
                 wcalls, slotWrite, mapped_buf, wret, crashed>>

\* ------------------------------------------------------------------------
\* The GPU and the frame loop around the allocator: a frame is written, then
\* submitted; the GPU retires the submitted frames in submission order, each
\* reading the slot written for it until it retires.  A frame is submitted
\* only while fewer than nframes_ frames are in flight (submitted, unretired).
\* ------------------------------------------------------------------------
FrameWrite(data, m, survive) ==
  /\ ~pending
  /\ Write(data, m, survive)
  /\ pending' = TRUE
  /\ UNCHANGED inflight

Submit ==
  /\ ~crashed
  /\ pending
  /\ Len(inflight) < nframes_
  /\ inflight' = Append(inflight, current_offset_)
  /\ pending' = FALSE
  /\ UNCHANGED svars

Retire ==
  /\ inflight # <<>>
  /\ inflight' = Tail(inflight)
  /\ UNCHANGED <<svars, pending>>

\* ------------------------------------------------------------------------
\* descriptor_set<S>::binding<B> and cmd_bind_resources
\* ------------------------------------------------------------------------
\* the image, the sampler and the command buffer the client binds with
ImageObj == 1
SamplerObj == 1
CmdBuf == 1

\* what a field the encoder never assigns may hold
Junk == {0, 1}

\* the (set, binding) coordinates the client encodes for
CmdCoords == {<<0, 0>>, <<1, 1>>}

\* descriptor_set<S>::binding<B>::texture(image); u: the unassigned sampler
texture(S, B, image, u) ==
  [type |-> "NGF_DESCRIPTOR_TEXTURE", target_binding |-> B, target_set |-> S,
   info |-> [image |-> image, sampler |-> u]]

\* descriptor_set<S>::binding<B>::uniform_buffer(buf, offset, range)
uniform_buffer(S, B, buf, offset, range) ==
  [type |-> "NGF_DESCRIPTOR_UNIFORM_BUFFER", target_binding |-> B, target_set |-> S,
   info |-> [buffer |-> buf, offset |-> offset, range |-> range]]

\* descriptor_set<S>::binding<B>::sampler(sampler); u: the unassigned image
sampler(S, B, smp, u) ==
  [type |-> "NGF_DESCRIPTOR_SAMPLER", target_binding |-> B, target_set |-> S,
   info |-> [image |-> u, sampler |-> smp]]

\* descriptor_set<S>::binding<B>::texture_and_sampler(image, sampler)
texture_and_sampler(S, B, image, smp) ==
  [type |-> "NGF_DESCRIPTOR_TEXTURE_AND_SAMPLER", target_binding |-> B,
   target_set |-> S, info |-> [image |-> image, sampler |-> smp]]

\* the bind-ops the client encodes
EncodedOps ==
  UNION { {texture(c[1], c[2], ImageObj, u) : u \in Junk}
          \cup {sampler(c[1], c[2], SamplerObj, u) : u \in Junk}
          \cup {texture_and_sampler(c[1], c[2], ImageObj, SamplerObj)}
          \cup {uniform_buffer(c[1], c[2], BufObj, o, Alignment) : o \in {0, Alignment}}
          : c \in CmdCoords }

\* the argument packs of a cmd_bind_resources call: up to MaxOps bind-ops, no
\* two for the same (set, binding)
ArgPacks ==
  {a \in UNION {[1..n -> EncodedOps] : n \in 0..MaxOps} :
     \A i \in 1..Len(a) : \A j \in 1..Len(a) :
       (i # j) => (<<a[i].target_set, a[i].target_binding>>
                     # <<a[j].target_set, a[j].target_binding>>)}

\* no op bound at a coordinate
NoOp == [type |-> ""]

\* cmd_bind_resources that fills ops[] from the last argument to the first
cmd_bind_resources_reversed(buf, args) ==
  LET ops == [i \in 1..Len(args) |-> args[Len(args) + 1 - i]]
  IN  [calls |-> << [fn |-> "ngf_cmd_bind_resources", buf |-> buf,
                     bind_ops |-> ops, nbind_ops |-> Len(ops)] >>,
       ret |-> "void"]

\* void cmd_bind_resources(ngf_cmd_buffer *buf, const Args&&... args): the
\* array ops[] = { args... } and the one backend call with it and its length
cmd_bind_resources(buf, args) ==
  LET ops == [i \in 1..Len(args) |-> args[i]]
  IN  [calls |-> << [fn |-> "ngf_cmd_bind_resources", buf |-> buf,
                     bind_ops |-> ops, nbind_ops |-> Len(ops)] >>,
       ret |-> "void"]

\* backend: ngf_cmd_bind_resources binds the first n ops in order
RECURSIVE ngf_cmd_bind_resources(_, _, _)
ngf_cmd_bind_resources(bound, ops, n) ==
  IF n = 0 THEN bound
  ELSE LET b  == ngf_cmd_bind_resources(bound, ops, n - 1)
           op == ops[n]
       IN  [b EXCEPT ![<<op.target_set, op.target_binding>>] = op]

CInit ==
  /\ cmd_args = <<>>
  /\ cmd_calls = <<>>
  /\ cmd_ret = ""
  /\ cmd_bound = [c \in CmdCoords |-> NoOp]

\* ngf::cmd_bind_resources(buf, args...).  With an empty pack the array
\* ops[] = { } has no bound and an empty initializer, which is ill-formed:
\* a build either rejects the call (wellformed = FALSE) or accepts a
\* zero-length array as an extension.
CmdBindResources(args, wellformed) ==
  /\ wellformed \/ args = <<>>
  /\ cmd_args' = args
  /\ IF wellformed
     THEN LET r == cmd_bind_resources(CmdBuf, args)
          IN  /\ cmd_calls' = r.calls
              /\ cmd_ret' = r.ret
              /\ cmd_bound' = ngf_cmd_bind_resources(cmd_bound, r.calls[1].bind_ops,
                                                     r.calls[1].nbind_ops)
     ELSE /\ cmd_calls' = <<>>
          /\ cmd_ret' = "ill-formed"
          /\ UNCHANGED cmd_bound

\* ------------------------------------------------------------------------
\* Specifications
\* ------------------------------------------------------------------------
HInit ==
  /\ alive = {}
  /\ handle_ = [h \in Handles |-> Null]
  /\ destroyed = [p \in Objs |-> 0]
  /\ nextObj = 1
  /\ raw = {}
  /\ last = Call("", 0, 0, Null, Null, "", <<>>)

GInit ==
  /\ inflight = <<>>
  /\ pending = FALSE

\* Handles in the hands of a client that may pass any raw pointer it has seen.
Init ==
  /\ HInit
  /\ Constructed({1}, {1}, {BufObj})
  /\ GInit
  /\ CInit

Next ==
  \/ \E h \in Handles : Construct(h) /\ UNCHANGED <<svars, gvars, cvars>>
  \/ \E h \in Handles : \E p \in raw \cup {Null} : ConstructRaw(h, p) /\ UNCHANGED <<svars, gvars, cvars>>
  \/ \E h \in Handles : \E o \in Handles : MoveConstruct(h, o) /\ UNCHANGED <<svars, gvars, cvars>>
  \/ \E h \in Handles : Destruct(h) /\ UNCHANGED <<svars, gvars, cvars>>
  \/ \E h \in Handles : \E o \in Handles : MoveAssign(h, o) /\ UNCHANGED <<svars, gvars, cvars>>
  \/ \E h \in Handles : \E e \in {NGF_ERROR_OK} \cup CreateErrors : Initialize(h, e) /\ UNCHANGED <<svars, gvars, cvars>>
  \/ \E h \in Handles : Get(h) /\ UNCHANGED <<svars, gvars, cvars>>
  \/ \E h \in Handles : Release(h) /\ UNCHANGED <<svars, gvars, cvars>>
  \/ \E h \in Handles : \E p \in raw \cup {Null} : Reset(h, p) /\ UNCHANGED <<svars, gvars, cvars>>

Spec == Init /\ [][Next]_vars

\* The raw pointers the client owns: seen, held by no live handle, not destroyed.
ClientOwned ==
  {p \in raw : destroyed[p] = 0 /\ \A h \in alive : handle_[h] # p}

\* Handles in the hands of a client that gives a handle only what it owns.
NextOwned ==
  \/ \E h \in Handles : Construct(h) /\ UNCHANGED <<svars, gvars, cvars>>
  \/ \E h \in Handles : \E p \in ClientOwned \cup {Null} : ConstructRaw(h, p) /\ UNCHANGED <<svars, gvars, cvars>>
  \/ \E h \in Handles : \E o \in Handles : MoveConstruct(h, o) /\ UNCHANGED <<svars, gvars, cvars>>
  \/ \E h \in Handles : Destruct(h) /\ UNCHANGED <<svars, gvars, cvars>>
  \/ \E h \in Handles : \E o \in Handles : MoveAssign(h, o) /\ UNCHANGED <<svars, gvars, cvars>>
  \/ \E h \in Handles : \E e \in {NGF_ERROR_OK} \cup CreateErrors : Initialize(h, e) /\ UNCHANGED <<svars, gvars, cvars>>
  \/ \E h \in Handles : Get(h) /\ UNCHANGED <<svars, gvars, cvars>>
  \/ \E h \in Handles : Release(h) /\ UNCHANGED <<svars, gvars, cvars>>
  \/ \E h \in Handles : \E p \in ClientOwned \cup {Null} : Reset(h, p) /\ UNCHANGED <<svars, gvars, cvars>>

SpecOwned == Init /\ [][NextOwned]_vars

\* Handles that are only initialized, reset to null, move-assigned and destructed.
NextLifecycle ==
  \/ \E h \in Handles : Construct(h) /\ UNCHANGED <<svars, gvars, cvars>>
  \/ \E h \in Handles : Destruct(h) /\ UNCHANGED <<svars, gvars, cvars>>
  \/ \E h \in Handles : \E o \in Handles : MoveAssign(h, o) /\ UNCHANGED <<svars, gvars, cvars>>
  \/ \E h \in Handles : \E e \in {NGF_ERROR_OK} \cup CreateErrors : Initialize(h, e) /\ UNCHANGED <<svars, gvars, cvars>>
  \/ \E h \in Handles : Reset(h, Null) /\ UNCHANGED <<svars, gvars, cvars>>

SpecLifecycle == Init /\ [][NextLifecycle]_vars

\* the payload sizes of the allocators that are written and bound: the
\* smallest, the 68 bytes of the documented scenario, and the sizes around one
\* alignment unit
StreamSizes == {1, 68, Alignment - 1, Alignment, Alignment + 1}

\* A streamed_uniform, with or without its buffer, written and bound; map_range
\* may fail in any write.
InitStream ==
  /\ HInit
  /\ Constructed(StreamSizes, 1..MaxFrames, {BufObj, Null})
  /\ GInit
  /\ CInit

NextStream ==
  \/ \E d \in Payloads : \E m \in MapResults : \E v \in BOOLEAN :
       Write(d, m, v) /\ UNCHANGED <<hvars, gvars, cvars>>
  \/ \E s \in Coords : \E b \in Coords : BindOp(s, b) /\ UNCHANGED <<hvars, gvars, cvars>>

SpecStream == InitStream /\ [][NextStream]_vars

\* The constructor for every payload size and frame count, the allocator then
\* written and bound with every map succeeding.
InitSizes ==
  /\ HInit
  /\ Constructed(1..MaxPayload, 1..MaxFrames, {BufObj})
  /\ GInit
  /\ CInit

NextSizes ==
  \/ \E d \in Payloads : Write(d, Mapped, TRUE) /\ UNCHANGED <<hvars, gvars, cvars>>
  \/ \E s \in Coords : \E b \in Coords : BindOp(s, b) /\ UNCHANGED <<hvars, gvars, cvars>>

SpecSizes == InitSizes /\ [][NextSizes]_vars

\* A streamed_uniform written once per frame, with the GPU reading behind it.
InitGpu ==
  /\ HInit
  /\ Constructed(StreamSizes, 1..MaxFrames, {BufObj})
  /\ GInit
  /\ CInit

NextGpu ==
  \/ \E d \in Payloads : \E m \in MapResults : \E v \in BOOLEAN :
       FrameWrite(d, m, v) /\ UNCHANGED <<hvars, cvars>>
  \/ Submit /\ UNCHANGED <<hvars, cvars>>
  \/ Retire /\ UNCHANGED <<hvars, cvars>>

SpecGpu == InitGpu /\ [][NextGpu]_vars

\* A client that encodes bind-ops and submits them to one command buffer.
InitCmd ==
  /\ HInit
  /\ Constructed({1}, {1}, {BufObj})
  /\ GInit
  /\ CInit

NextCmd ==
  \E a \in ArgPacks : \E w \in BOOLEAN :
    CmdBindResources(a, w) /\ UNCHANGED <<hvars, svars, gvars>>

SpecCmd == InitCmd /\ [][NextCmd]_vars

\* ------------------------------------------------------------------------
\* Properties of ngf_handle
\* ------------------------------------------------------------------------
\* The objects created so far.
Created == {p \in Objs : p < nextObj}

\* The backend destroy calls of a call record.
DestroyCalls(c) == {i \in 1..Len(c.calls) : c.calls[i].fn = "destroy"}

\* No two live handles hold the same object.
Unique ==
  \A a \in alive : \A b \in alive :
    (a # b /\ handle_[a] # Null) => handle_[a] # handle_[b]

C2_AlwaysUnique == Unique

\* The call of this step hands a handle a raw pointer that a live handle holds.
AdoptsHeld ==
  /\ last'.op \in {"construct_raw", "reset"}
  /\ last'.arg # Null
  /\ \E g \in alive : handle_[g] = last'.arg

\* C2 amended: every operation keeps the handles' objects distinct, unless it
\* is a construction from a raw pointer or a reset whose argument is an object
\* that a live handle holds at the call.
C2_UniqueUnlessAdoptsHeld == [][(Unique /\ ~AdoptsHeld) => Unique']_vars

\* C2 witness: a reset has handed a handle a raw pointer the client got from
\* release, and both handles hold an object, each its own.
C2_Witness ==
  /\ last.op = "reset"
  /\ last.arg # Null
  /\ alive = Handles
  /\ \A h \in Handles : handle_[h] # Null
  /\ Unique

C4_Initialize ==
  [][last'.op = "initialize" =>
       LET h   == last'.self
           old == handle_[h]
           cs  == last'.calls
           c   == cs[Len(cs)]
       IN  /\ Len(cs) >= 1
           /\ c.fn = "create"
           /\ cs = (IF old # Null THEN <<BackendCall("destroy", old, "")>> ELSE <<>>)
                     \o <<c>>
           /\ old # Null => destroyed'[old] = destroyed[old] + 1
           /\ last'.err = c.ret
           /\ c.ret = NGF_ERROR_OK =>
                /\ handle_'[h] = c.obj
                /\ c.obj \in Objs \ Created
                /\ destroyed'[c.obj] = 0
           /\ c.ret # NGF_ERROR_OK =>
                /\ c.ret \in CreateErrors
                /\ handle_'[h] = Null
                /\ nextObj' = nextObj]_vars

\* C4 witness: an initialize on a handle that held an object destroyed it and
\* then failed, and the handle is empty.
C4_Witness ==
  /\ last.op = "initialize"
  /\ last.err \in CreateErrors
  /\ Len(last.calls) = 2
  /\ last.calls[1].fn = "destroy"
  /\ handle_[last.self] = Null

\* C5: release returns the held object, empties the handle and calls no
\* destroy; and no later operation destroys an object that is in the client's
\* hands (seen by the client, held by no handle, not destroyed).
C5_Release ==
  [][/\ last'.op = "release" =>
          /\ last'.ret = handle_[last'.self]
          /\ handle_'[last'.self] = Null
          /\ last'.calls = <<>>
          /\ destroyed' = destroyed
     /\ \A p \in ClientOwned : destroyed'[p] = 0]_vars

\* C5 witness: every handle is destructed and an object the client got from
\* release is still not destroyed.
C5_Witness ==
  /\ alive = {}
  /\ last.op = "destruct"
  /\ \E p \in raw : destroyed[p] = 0

\* ------------------------------------------------------------------------
\* Properties of streamed_uniform
\* ------------------------------------------------------------------------
\* The map request of the most recent write.
MapCall == wcalls[1]

\* C6: after k >= 1 writes (calls that returned) current_offset_ is
\* ((k-1) mod N) * aligned_size_, and the slot the next write fills is k mod N
\* (slot 0 before any write).
C6_OffsetAfterWrites ==
  ~crashed =>
    /\ frame_ = writes % nframes_
    /\ writes >= 1 => current_offset_ = ((writes - 1) % nframes_) * aligned_size_

\* C6 witness: the fifth write of a three-frame allocator filled slot 1.
C6_Witness ==
  /\ nframes_ = 3
  /\ writes = 5
  /\ current_offset_ = aligned_size_

\* ceil(a / b) for a >= 0, b > 0
CeilDiv(a, b) == (a + b - 1) \div b

\* C7: the slot size is ceil(sizeof(T) / alignment) * alignment, for every
\* payload size, the exact multiples of the alignment included.
C7_SlotSizeIsCeil == aligned_size_ = CeilDiv(sizeofT, Alignment) * Alignment

\* C8: the slot size is at least the payload size and a multiple of the
\* alignment, and the buffer is requested with aligned_size_ * nframes_ bytes.
C8_SlotSizeCoversPayload ==
  /\ aligned_size_ >= sizeofT
  /\ aligned_size_ % Alignment = 0
  /\ buffer_info.size = aligned_size_ * nframes_

\* C8 witness: a payload larger than one alignment unit, in a ring of several
\* slots, has been written.
C8_Witness ==
  /\ sizeofT > Alignment
  /\ nframes_ > 1
  /\ writes >= 1
  /\ buffer_info.size >= nframes_ * sizeofT

\* C9: the map request of a write carries write and discard if the offset it
\* maps is 0 and write alone otherwise; so the discard is on exactly the
\* writes number 1, N+1, 2N+1, ... (every write when N = 1).
C9_DiscardIffOffsetZero ==
  (writes >= 1 /\ ~crashed) =>
    /\ MapCall.fn = "map_range"
    /\ MapCall.offset = current_offset_
    /\ MapCall.flags = (IF MapCall.offset = 0
                        THEN {NGF_BUFFER_MAP_WRITE_BIT, NGF_BUFFER_MAP_DISCARD_BIT}
                        ELSE {NGF_BUFFER_MAP_WRITE_BIT})
    /\ (NGF_BUFFER_MAP_DISCARD_BIT \in MapCall.flags) <=> ((writes - 1) % nframes_ = 0)

\* C9 witness: the ring of several slots has wrapped and the write that came
\* back to offset 0 discarded.
C9_Witness ==
  /\ nframes_ > 1
  /\ writes = nframes_ + 1
  /\ current_offset_ = 0
  /\ NGF_BUFFER_MAP_DISCARD_BIT \in MapCall.flags

\* Some unretired frame reads the slot at this offset.
ReadByGpu(offset) == \E i \in 1..Len(inflight) : inflight[i] = offset

\* This step is a write call.
IsWrite == writes' = writes + 1

\* Between the write of this step and the previous write to the same slot
\* there are exactly nframes_ - 1 other writes.
SlotSpacing ==
  IsWrite =>
    LET s == current_offset_' \div aligned_size_
    IN  (s \in Slots /\ slotWrite[s] # 0) => writes' - slotWrite[s] = nframes_

\* C10 as stated: with up to N frames in flight, no write maps without the
\* discard flag a slot that an unretired frame reads, and consecutive writes to
\* one slot are N - 1 writes apart.
C10_NeverMapsSlotInUse ==
  /\ [](pending =>
          (ReadByGpu(current_offset_) => NGF_BUFFER_MAP_DISCARD_BIT \in MapCall.flags))
  /\ [][SlotSpacing]_vars

\* C10 amended: a write called while at most N - 1 submitted frames are
\* unretired maps no slot that an unretired frame reads, unless with the
\* discard flag, and consecutive writes to one slot are N - 1 writes apart.
C10_NeverMapsSlotInUseWhenPaced ==
  [][/\ (IsWrite /\ Len(inflight) < nframes_) =>
          (ReadByGpu(current_offset_') =>
             NGF_BUFFER_MAP_DISCARD_BIT \in wcalls'[1].flags)
     /\ SlotSpacing]_vars

\* C10 witness: a write without the discard flag, made while N - 1 frames were
\* unretired, after the ring has wrapped.
C10_Witness ==
  /\ pending
  /\ nframes_ > 1
  /\ writes > nframes_
  /\ Len(inflight) = nframes_ - 1
  /\ current_offset_ # 0
  /\ ~ReadByGpu(current_offset_)

\* C11 as stated: an allocator whose buffer creation failed (buf_ is null) is
\* never written or bound: no backend call and no bind-op carry the null buffer.
C11_NoUseOfNullBuffer == buf_ = Null => (wcalls = <<>> /\ bind_op = NoBindOp)

\* C12 as stated: when map_range fails (returns null) the write reports the
\* failure to its caller, issues no memcpy, and maps only once.
C12_MapFailurePropagated ==
  (wcalls # <<>> /\ mapped_buf = Null) =>
    /\ wret \notin {"", "void"}
    /\ \A i \in 1..Len(wcalls) : wcalls[i].fn # "memcpy"
    /\ Cardinality({i \in 1..Len(wcalls) : wcalls[i].fn = "map_range"}) = 1

\* This step is a bind_op_at_current_offset call.
IsBind == writes' = writes /\ crashed' = crashed

\* The offset of the slot the most recent write filled (0 before any write).
LastWrittenOffset ==
  IF writes = 0 THEN 0 ELSE ((writes - 1) % nframes_) * aligned_size_

\* C13: bind_op_at_current_offset(set, binding) returns a uniform-buffer
\* bind-op with that set and binding, the allocator's buffer, the offset of
\* the slot the most recent write filled (0 before any write) and the range
\* aligned_size_.
C13_BindOpAtLastWrite ==
  [][IsBind =>
       bind_op' = [type |-> "NGF_DESCRIPTOR_UNIFORM_BUFFER",
                   target_binding |-> bind_req'.binding,
                   target_set |-> bind_req'.set,
                   buffer |-> buf_,
                   offset |-> LastWrittenOffset,
                   range |-> aligned_size_]]_vars

\* C13 witness: after the second write of a three-frame allocator a bind-op
\* for set 1, binding 0 reports slot 1, not slot 2 that the next write fills.
C13_Witness ==
  /\ nframes_ = 3
  /\ writes = 2
  /\ bind_req.writes = 2
  /\ bind_op.type = "NGF_DESCRIPTOR_UNIFORM_BUFFER"
  /\ bind_op.target_set = 1
  /\ bind_op.target_binding = 0
  /\ bind_op.offset = aligned_size_
  /\ frame_ = 2

\* The allocator of the documented scenario.
Scenario == sizeofT = 68 /\ nframes_ = 3

\* C14: with N = 3 and a payload of 68 bytes the slot size is 256, the first
\* three writes use offsets 0, 256, 512, the fourth uses offset 0 with the
\* discard flag, and a bind-op taken after the fourth write reports offset 0
\* and range 256.
C14_Scenario ==
  /\ []((Scenario /\ ~crashed) =>
          /\ aligned_size_ = 256
          /\ writes = 1 => current_offset_ = 0
          /\ writes = 2 => current_offset_ = 256
          /\ writes = 3 => current_offset_ = 512
          /\ writes = 4 => (/\ current_offset_ = 0
                            /\ MapCall.offset = 0
                            /\ NGF_BUFFER_MAP_DISCARD_BIT \in MapCall.flags))
  /\ [][(Scenario /\ IsBind /\ writes = 4) =>
          (bind_op'.offset = 0 /\ bind_op'.range = 256)]_vars

\* C14 witness: the scenario after its fourth write and the bind-op for it.
C14_Witness ==
  /\ Scenario
  /\ writes = 4
  /\ bind_req.writes = 4
  /\ bind_op.type = "NGF_DESCRIPTOR_UNIFORM_BUFFER"
  /\ bind_op.offset = 0
  /\ bind_op.range = 256
  /\ NGF_BUFFER_MAP_DISCARD_BIT \in MapCall.flags

\* C15: a cmd_bind_resources call that ran made exactly one backend call, with
\* the command buffer it was given, the ops it was given in the order given
\* and their number as the count; what it forwards depends on its arguments
\* alone.
C15_ForwardsVerbatim ==
  cmd_ret = "void" =>
    cmd_calls = << [fn |-> "ngf_cmd_bind_resources", buf |-> CmdBuf,
                    bind_ops |-> cmd_args, nbind_ops |-> Len(cmd_args)] >>

\* C15 witness: a uniform-buffer op for (1, 1) followed by a texture op for
\* (0, 0) was forwarded with count 2, and the backend bound the texture.
C15_Witness ==
  /\ cmd_ret = "void"
  /\ Len(cmd_args) = 2
  /\ cmd_args[1] = uniform_buffer(1, 1, BufObj, Alignment, Alignment)
  /\ cmd_args[2].type = "NGF_DESCRIPTOR_TEXTURE"
  /\ Len(cmd_calls) = 1
  /\ cmd_calls[1].nbind_ops = 2
  /\ cmd_calls[1].bind_ops[2] = cmd_args[2]
  /\ cmd_bound[<<0, 0>>] = cmd_args[2]

\* C16 as stated: a cmd_bind_resources call with no bind-ops is accepted,
\* completes without reporting a failure, and leaves the bound ops alone.
C16_EmptyIsAcceptedNoOp ==
  [][cmd_args' = <<>> =>
       (cmd_ret' \in {"void", NGF_ERROR_OK} /\ cmd_bound' = cmd_bound)]_vars

\* C17 as stated: every write call issues map_range, memcpy of sizeof(T)
\* bytes, flush_range and unmap, once each and in that order, map and flush
\* with the range [current_offset_, current_offset_ + aligned_size_), and then
\* advances frame_ by one modulo nframes_.
C17_WriteSequence ==
  wcalls # <<>> =>
    /\ [i \in 1..Len(wcalls) |-> wcalls[i].fn]
         = <<"map_range", "memcpy", "flush_range", "unmap">>
    /\ wcalls[1].offset = current_offset_
    /\ wcalls[1].size = aligned_size_
    /\ wcalls[2].size = sizeofT
    /\ wcalls[3].offset = wcalls[1].offset
    /\ wcalls[3].size = wcalls[1].size
    /\ frame_ = ((current_offset_ \div aligned_size_) + 1) % nframes_

\* C18: frame_ is in 0..N-1, current_offset_ is a multiple of aligned_size_,
\* and every range a write maps or a bind-op reports ends inside the buffer.
C18_InsideBuffer ==
  /\ frame_ \in 0..(nframes_ - 1)
  /\ current_offset_ % aligned_size_ = 0
  /\ wcalls # <<>> => wcalls[1].offset + wcalls[1].size <= buffer_info.size
  /\ bind_op # NoBindOp => bind_op.offset + bind_op.range <= buffer_info.size

\* C18 witness: the last slot of a ring of several slots was written and bound
\* after the ring had wrapped once.
C18_Witness ==
  /\ nframes_ > 1
  /\ writes > nframes_
  /\ bind_op # NoBindOp
  /\ bind_op.offset + bind_op.range = buffer_info.size
  /\ wcalls[1].offset + wcalls[1].size = buffer_info.size

\* C19: bind_op_at_current_offset leaves frame_ and current_offset_ alone and
\* makes no backend call; a call that follows another with no write between
\* returns the same offset and range; and whatever was bound, the next write
\* uses the offset of slot (number of writes so far) mod N.
C19_BindOpIsPure ==
  [][/\ IsBind =>
          /\ frame_' = frame_
          /\ current_offset_' = current_offset_
          /\ bind_req'.calls = <<>>
          /\ wcalls' = wcalls
          /\ (bind_op # NoBindOp /\ bind_req.writes = writes) =>
               (bind_op'.offset = bind_op.offset /\ bind_op'.range = bind_op.range)
     /\ IsWrite => current_offset_' = (writes % nframes_) * aligned_size_]_vars

\* C19 witness: a write that followed a bind-op taken after the previous write
\* used the next slot.
C19_Witness ==
  /\ nframes_ = 3
  /\ writes = 3
  /\ bind_req.writes = 2
  /\ bind_op.offset = aligned_size_
  /\ current_offset_ = aligned_size_ + aligned_size_

\* C20: move-assigning a non-empty handle to itself destroys its object once
\* and leaves it empty; destructing an empty handle calls no destroy; move
\* construction calls no destroy, empties the source and gives the new handle
\* the source's object.
C20_SelfMoveAndMoveConstruct ==
  [][/\ (last'.op = "move_assign" /\ last'.self = last'.other
           /\ handle_[last'.self] # Null) =>
          /\ last'.calls = <<BackendCall("destroy", handle_[last'.self], "")>>
          /\ destroyed' = destroy(destroyed, handle_[last'.self])
          /\ handle_'[last'.self] = Null
     /\ (last'.op = "destruct" /\ handle_[last'.self] = Null) =>
          (last'.calls = <<>> /\ destroyed' = destroyed)
     /\ last'.op = "move_construct" =>
          /\ last'.calls = <<>>
          /\ destroyed' = destroyed
          /\ handle_'[last'.other] = Null
          /\ handle_'[last'.self] = handle_[last'.other]]_vars

\* C20 witness: a handle that held an object was move-assigned to itself; its
\* object was destroyed once and the handle is empty.
C20_Witness ==
  /\ last.op = "move_assign"
  /\ last.self = last.other
  /\ Len(last.calls) = 1
  /\ destroyed[last.calls[1].obj] = 1
  /\ handle_[last.self] = Null

====
